---- MODULE Spec2Model ----
(***************************************************************************)
(* custom_shell: the session loop (shell.c), the parser and the history    *)
(* expander (parser.c), the dispatcher and the redirection manager         *)
(* (executor.c) and the history store with its persisted file (shell.c).   *)
(*                                                                         *)
(* C strings are sequences of one-character strings.  The buffer sizes of  *)
(* shell.h are scaled down so that their limits are reached by short       *)
(* lines; the relations between them are those of shell.h.                 *)
(***************************************************************************)
EXTENDS Integers, Sequences, FiniteSets, TLC

\* shell.h:34 MAX_INPUT_SIZE is 1024; scaled.
MAX_INPUT_SIZE == 12
\* shell.h:58 MAX_HISTORY_LENGTH is 1024, the same as MAX_INPUT_SIZE.
MAX_HISTORY_LENGTH == MAX_INPUT_SIZE
\* shell.h:52 MAX_HISTORY_SIZE is 100; scaled.
MAX_HISTORY_SIZE == 2
\* shell.h:70 MAX_HISTORY_FILE_SIZE is 1 MiB, about ten times the size of a
\* full history of full-length entries; scaled with them.
MAX_HISTORY_FILE_SIZE == 10 * MAX_HISTORY_SIZE * MAX_HISTORY_LENGTH
\* parser.c:176 char prefix[256], a quarter of MAX_INPUT_SIZE; scaled.
PREFIX_SIZE == 5
MAX_ARGS == 64
MAX_PATH == 256

\* How many lines a session reads, how many entries a history run appends.
MaxReads == 2
MaxAppends == 4
\* How many child processes the system lets the shell have at a time.
MaxChildren == 2
\* How long the lines given to the parser alone are.
MaxSeg == 6

----------------------------------------------------------------------------
(* <ctype.h>, <string.h>, <stdlib.h>, <stdio.h> as the code uses them. *)

NL == "\n"
Digits == <<"0", "1", "2", "3", "4", "5", "6", "7", "8", "9">>
Letters == {"a", "b", "c", "d", "e", "f", "g", "h", "i", "j", "k", "l", "m",
            "n", "o", "p", "q", "r", "s", "t", "u", "v", "w", "x", "y", "z"}

isspace(c) == c \in {" ", "\t", NL}
isdigit(c) == \E d \in 1..10 : Digits[d] = c
isalpha(c) == c \in Letters
DigitVal(c) == (CHOOSE d \in 1..10 : Digits[d] = c) - 1

\* A 32-bit int as two 16-bit halves [hi, lo], so that arithmetic modulo 2^32
\* stays within the numbers TLC computes with.
Half == 256 * 256
Int32(n) == [hi |-> n \div Half, lo |-> n % Half]
\* number * 10 + digit in int arithmetic, wrapping modulo 2^32.
MulAdd10(x, digit) ==
    LET lo == x.lo * 10 + digit
    IN  [hi |-> (x.hi * 10 + lo \div Half) % Half, lo |-> lo % Half]
\* The sign bit set: a negative int.
IsNegative(x) == x.hi >= Half \div 2
\* The value of an int.
IntValue(x) == IF IsNegative(x) THEN (x.hi - Half) * Half + x.lo ELSE x.hi * Half + x.lo

Drop(s, n) == IF n >= Len(s) THEN <<>> ELSE SubSeq(s, n + 1, Len(s))
Take(s, n) == IF n >= Len(s) THEN s ELSE SubSeq(s, 1, n)

\* strncmp(s, prefix, strlen(prefix)) == 0
HasPrefix(s, prefix) == Len(prefix) <= Len(s) /\ SubSeq(s, 1, Len(prefix)) = prefix

\* strcspn(s, reject): the length of the initial run holding no char of reject.
RECURSIVE strcspn(_, _)
strcspn(s, reject) ==
    IF s = <<>> \/ Head(s) \in reject THEN 0 ELSE 1 + strcspn(Tail(s), reject)

\* strspn(s, accept): the length of the initial run of chars of accept.
RECURSIVE strspn(_, _)
strspn(s, accept) ==
    IF s = <<>> \/ Head(s) \notin accept THEN 0 ELSE 1 + strspn(Tail(s), accept)

\* The tokens successive strtok(s, delim) calls return: the maximal runs of
\* non-delimiter chars, in order; never an empty token.
RECURSIVE strtok(_, _)
strtok(s, delim) ==
    LET rest == Drop(s, strspn(s, delim))
        n == strcspn(rest, delim)
    IN  IF rest = <<>> THEN <<>>
        ELSE <<Take(rest, n)>> \o strtok(Drop(rest, n), delim)

\* The leading whitespace a parse skips.
RECURSIVE SkipSpace(_)
SkipSpace(s) == IF s # <<>> /\ isspace(Head(s)) THEN SkipSpace(Tail(s)) ELSE s

RECURSIVE DigitRun(_, _)
DigitRun(s, acc) ==
    IF s # <<>> /\ isdigit(Head(s))
    THEN DigitRun(Tail(s), acc * 10 + DigitVal(Head(s)))
    ELSE acc

\* atoi / atol: optional whitespace, optional sign, a digit run; 0 without one.
atoi(s) ==
    LET t == SkipSpace(s)
    IN  IF t # <<>> /\ Head(t) = "-" THEN 0 - DigitRun(Tail(t), 0)
        ELSE IF t # <<>> /\ Head(t) = "+" THEN DigitRun(Tail(t), 0)
        ELSE DigitRun(t, 0)

\* printf("%d") / printf("%ld")
RECURSIVE DecNat(_)
DecNat(n) == IF n < 10 THEN <<Digits[n + 1]>> ELSE DecNat(n \div 10) \o <<Digits[(n % 10) + 1]>>
Dec(n) == IF n < 0 THEN <<"-">> \o DecNat(0 - n) ELSE DecNat(n)

\* strncpy(dst, src, n - 1); dst[n - 1] = '\0'
strncpy(src, n) == Take(src, n - 1)

----------------------------------------------------------------------------
VARIABLES
    \* shell_state_t (shell.h)
    exit_code, should_exit, history, history_count, history_index,
    \* globals of shell.c and executor.c
    g_signal_received, g_should_exit, original_stdin, original_stdout,
    \* the process's descriptor table, the lines its terminal can deliver,
    \* and the persisted history file
    fdt, terminal, hfile,
    \* shell_run: its position, its locals, and what it returned
    pc, input, commands, cmd_count, i, retval,
    \* history of the run, kept to state the properties: per line read, and
    \* n_appends the add_to_history calls (of the line; of the run in SpecHist)
    reads, raw_line, exp_rc, exp_out, line_execs, n_appends, exit_status,
    appended, from_empty, before_restart,
    \* what the latest load_history_from_file started from and returned
    loaded,
    \* the child processes of the shell and the one execute_external waits for
    children, fg_pid,
    \* history of the run: the commands of the line handed to execute_command,
    \* what the latest execute_command did, and the children that had already
    \* terminated when the line was read
    ran, last_exec, stale,
    \* the buffering of the stdout stream, the text in its buffer, and the
    \* text written so far with the descriptor's stream at the time
    stdout_mode, stdout_buf, sent,
    \* the working directory of the process, the bytes allocated for
    \* current_dir, and the bytes the latest refresh of current_dir wrote
    cwd, current_dir_size, dir_written,
    \* whether a free of the latest parse was of a pointer not owned
    bad_free

vars == <<exit_code, should_exit, history, history_count, history_index,
          g_signal_received, g_should_exit, original_stdin, original_stdout,
          fdt, terminal, hfile, pc, input, commands, cmd_count, i, retval,
          reads, raw_line, exp_rc, exp_out, line_execs, n_appends,
          exit_status, appended, from_empty, before_restart, loaded,
          children, fg_pid, ran, last_exec, stale,
          stdout_mode, stdout_buf, sent, cwd, current_dir_size, dir_written,
          bad_free>>

----------------------------------------------------------------------------
(* The history store: shell.c *)

\* memset(state->history, 0, sizeof(state->history))
ZeroEntry == [command |-> <<>>, timestamp |-> 0, exit_code |-> 0]
ZeroHistory == [k \in 0..(MAX_HISTORY_SIZE - 1) |-> ZeroEntry]

\* The part of the session state the store owns.
HistState(h, n) == [history |-> h, history_count |-> n, history_index |-> n]

\* add_to_history with the eviction test off by one: a full store is not shifted.
add_to_history_no_evict(st, command, code, now) ==
    IF command = <<>> THEN st
    ELSE LET index == st.history_count
             h == IF index \in DOMAIN st.history
                  THEN [st.history EXCEPT ![index] =
                           [command |-> strncpy(command, MAX_HISTORY_LENGTH),
                            timestamp |-> now, exit_code |-> code]]
                  ELSE st.history
         IN  HistState(h, index + 1)

\* add_to_history that overwrites the newest entry of a full store.
add_to_history_drop_newest(st, command, code, now) ==
    IF command = <<>> THEN st
    ELSE LET index == IF st.history_count >= MAX_HISTORY_SIZE
                      THEN MAX_HISTORY_SIZE - 1 ELSE st.history_count
         IN  HistState([st.history EXCEPT ![index] =
                           [command |-> strncpy(command, MAX_HISTORY_LENGTH),
                            timestamp |-> now, exit_code |-> code]],
                       index + 1)

add_to_history(st, command, code, now) ==
    IF command = <<>> THEN st
    ELSE LET full == st.history_count >= MAX_HISTORY_SIZE
             shifted == IF full
                        THEN [k \in 0..(MAX_HISTORY_SIZE - 1) |->
                                 IF k < MAX_HISTORY_SIZE - 1
                                 THEN st.history[k + 1] ELSE st.history[k]]
                        ELSE st.history
             index == IF full THEN MAX_HISTORY_SIZE - 1 ELSE st.history_count
         IN  HistState([shifted EXCEPT ![index] =
                           [command |-> strncpy(command, MAX_HISTORY_LENGTH),
                            timestamp |-> now, exit_code |-> code]],
                       index + 1)

clear_history == HistState(ZeroHistory, 0)

\* A lookup returns NULL or a pointer to the stored text.
NULL == <<>>
Ptr(text) == <<text>>
Deref(p) == p[1]

get_history_by_number(st, number) ==
    IF number < 1 \/ number > st.history_count THEN NULL
    ELSE Ptr(st.history[number - 1].command)

RECURSIVE PrefixScan(_, _, _)
PrefixScan(st, k, prefix) ==
    IF k < 0 THEN NULL
    ELSE IF HasPrefix(st.history[k].command, prefix) THEN Ptr(st.history[k].command)
    ELSE PrefixScan(st, k - 1, prefix)

get_last_command_by_prefix(st, prefix) == PrefixScan(st, st.history_count - 1, prefix)

----------------------------------------------------------------------------
(* The persisted history file: shell.c.  A file is NoFile or its bytes. *)

NoFile == <<"/absent/">>

\* fprintf(file, "%ld|%d|%s\n", timestamp, exit_code, command)
FormatEntry(e) == Dec(e.timestamp) \o <<"|">> \o Dec(e.exit_code) \o <<"|">> \o e.command \o <<NL>>

RECURSIVE FormatFrom(_, _)
FormatFrom(st, k) ==
    IF k >= st.history_count THEN <<>>
    ELSE FormatEntry(st.history[k]) \o FormatFrom(st, k + 1)

\* save_history_to_file: the file it leaves.  fopen_ok is whether
\* fopen(path, "w") succeeds; an empty history writes nothing at all.
save_history_to_file(st, file, fopen_ok) ==
    IF st.history_count = 0 \/ ~fopen_ok THEN file
    ELSE FormatFrom(st, IF st.history_count > MAX_HISTORY_SIZE
                        THEN st.history_count - MAX_HISTORY_SIZE ELSE 0)

\* fgets(line, size, file): at most size - 1 bytes, through the first newline.
fgets(bytes, size) ==
    LET n == strcspn(bytes, {NL})
        through == IF n < Len(bytes) THEN n + 1 ELSE n
    IN  Take(bytes, IF through < size - 1 THEN through ELSE size - 1)

\* The loop of load_history_from_file over the unread bytes of the file.
RECURSIVE LoadLoop(_, _, _)
LoadLoop(bytes, h, loaded_count) ==
    IF bytes = <<>> \/ loaded_count >= MAX_HISTORY_SIZE THEN HistState(h, loaded_count)
    ELSE LET got == fgets(bytes, MAX_HISTORY_LENGTH)
             line == Take(got, strcspn(got, {NL}))
             tok == strtok(line, {"|"})
             rest == Drop(bytes, Len(got))
         IN  IF Len(tok) >= 3
             THEN LoadLoop(rest,
                           [h EXCEPT ![loaded_count] =
                               [command |-> strncpy(tok[3], MAX_HISTORY_LENGTH),
                                timestamp |-> atoi(tok[1]),
                                exit_code |-> atoi(tok[2])]],
                           loaded_count + 1)
             ELSE LoadLoop(rest, h, loaded_count)

\* load_history_from_file without the test of the file's size.
load_history_from_file_any_size(st, file) ==
    IF file = NoFile THEN [rc |-> 0, st |-> st]
    ELSE [rc |-> 0, st |-> LoadLoop(file, st.history, 0)]

\* load_history_from_file: what it returns and the state it leaves.  A
\* missing file and a file over the size limit leave the state as it is.
load_history_from_file(st, file) ==
    IF file = NoFile THEN [rc |-> 0, st |-> st]
    ELSE IF Len(file) > MAX_HISTORY_FILE_SIZE THEN [rc |-> -1, st |-> st]
    ELSE [rc |-> 0, st |-> LoadLoop(file, st.history, 0)]

\* shell_init: the history part of a fresh session state (lines 94-100); the
\* value load_history_from_file returns is not looked at.
shell_init_history(file) == load_history_from_file(HistState(ZeroHistory, 0), file).st

\* What is kept of a load: the state it started from and what it returned.
Loaded(st, file) == <<[before |-> st, rc |-> load_history_from_file(st, file).rc]>>

----------------------------------------------------------------------------
(* What the model holds still while one part of the program is exercised. *)

histvars == <<history, history_count, history_index>>
procvars == <<g_signal_received, g_should_exit, original_stdin, original_stdout, fdt,
              terminal>>
loopvars == <<exit_code, should_exit, pc, input, commands, cmd_count, i, retval>>
linevars == <<reads, raw_line, exp_rc, exp_out, line_execs, n_appends, exit_status>>
storevars == <<appended, from_empty, before_restart, loaded>>
jobvars == <<children, fg_pid, ran, last_exec, stale>>
iovars == <<stdout_mode, stdout_buf, sent, cwd, current_dir_size, dir_written, bad_free>>

Store == HistState(history, history_count)

SetStore(st) ==
    /\ history' = st.history
    /\ history_count' = st.history_count
    /\ history_index' = st.history_index

\* The descriptor table of a process started from a terminal: 0, 1 and 2 open.
FDS == 0..6
Stream(kind, path) == [kind |-> kind, path |-> path]
Closed == Stream("closed", <<>>)
TermIn == Stream("terminal-in", <<>>)
TermOut == Stream("terminal-out", <<>>)
InitFdt == [fd \in FDS |-> IF fd = 0 THEN TermIn ELSE IF fd \in {1, 2} THEN TermOut ELSE Closed]

\* getcwd(buf, size): the path, or NULL when it does not fit with its
\* terminator.
getcwd(dir, size) == IF Len(dir) + 1 <= size THEN Ptr(dir) ELSE NULL

\* The bytes of the string that shell_init duplicates for current_dir
\* (shell.c:67-78) and that the loop writes into it (shell.c:122-124): the
\* working directory when getcwd gives it, else ".", with the terminator.
DirBytes(dir) == IF getcwd(dir, MAX_PATH) # NULL THEN Len(dir) + 1 ELSE Len(<<".">>) + 1

\* The directories there are, and the value of HOME.
Dirs == { <<"/">>, <<"/", "a", "/", "b">> }
HOME == <<"/">>

\* fflush(stdout): the buffered text is written to what descriptor 1 is.
fflush(buf, written, t) ==
    written \cup {[text |-> buf[k].text, want |-> buf[k].want, dest |-> t[1]] :
                     k \in 1..Len(buf)}

\* A session at a terminal started in the root directory: stdout is line
\* buffered and nothing has been printed or parsed.
IoInit ==
    /\ stdout_mode = "line"
    /\ stdout_buf = <<>>
    /\ sent = {}
    /\ cwd = <<"/">>
    /\ current_dir_size = DirBytes(cwd)
    /\ dir_written = 0
    /\ bad_free = FALSE

\* The children of the process: none, running, or terminated and not yet
\* waited for, with the way each ended (exit(0), exit of another status, exit
\* after a failed execvp, death by signal).
PIDS == 1..MaxChildren
Ended == {"exit0", "exit1", "failed", "signaled"}
NoChildren == [p \in PIDS |-> "none"]

\* What the history of the run holds before any command was executed.
NoExec ==
    [kind |-> "none", name |-> <<>>, rc |-> <<>>, pid |-> 0, status |-> "none",
     forks |-> FALSE, body |-> FALSE, notice |-> FALSE, truncated |-> {},
     input_failed |-> FALSE]

\* Globals as their initialisers leave them (shell.c:22-26, executor.c:21-22),
\* shell_init's exit_code and should_exit, and shell_run not yet at a line.
ProcInit ==
    /\ g_signal_received = 0
    /\ g_should_exit = 0
    /\ original_stdin = -1
    /\ original_stdout = -1
    /\ fdt = InitFdt
    /\ exit_code = 0
    /\ should_exit = 0
    /\ pc = "loop"
    /\ input = <<>>
    /\ commands = <<>>
    /\ cmd_count = 0
    /\ i = 0
    /\ retval = <<>>
    /\ reads = 0
    /\ raw_line = <<>>
    /\ exp_rc = 0
    /\ exp_out = <<>>
    /\ line_execs = 0
    /\ n_appends = 0
    /\ exit_status = <<>>
    /\ children = NoChildren
    /\ fg_pid = 0
    /\ ran = <<>>
    /\ last_exec = NoExec
    /\ stale = {}

----------------------------------------------------------------------------
(* SpecHist: the history store and its file, driven through its interface. *)

\* A file of one byte more than MAX_HISTORY_FILE_SIZE, of well-formed lines.
OversizeFile ==
    [k \in 1..(MAX_HISTORY_FILE_SIZE + 1) |->
        <<"7", "|", "0", "|", "l", "s", NL>>[((k - 1) % 7) + 1]]

\* Files a session may find at start-up: none, an empty one, one a session
\* saved, and one edited by hand (lines without three fields, no last newline).
InitFiles ==
    { NoFile,
      <<>>,
      <<"5", "|", "0", "|", "l", "s", NL, "1", "2", "|", "-", "1", "|", "a", NL, "7", "|", "1", "|", "b", NL>>,
      <<"x", NL, "|", "3", "|", NL, "9", "|", "1", "|", "b">>,
      OversizeFile }

\* What a session appends: the line, its exit code, the time.
HistInputs ==
    { [command |-> <<"l", "s">>, code |-> 0, now |-> 5],
      [command |-> <<"a", "|", "b">>, code |-> -1, now |-> 12],
      [command |-> <<"e", "x", "i", "t", " ", "3", ";", "l", "s">>, code |-> 1, now |-> 12],
      [command |-> <<>>, code |-> 0, now |-> 5] }

HistInit ==
    /\ ProcInit
    /\ IoInit
    /\ hfile \in InitFiles
    /\ terminal = {}
    /\ LET st == shell_init_history(hfile)
       IN  /\ history = st.history
           /\ history_count = st.history_count
           /\ history_index = st.history_index
           /\ from_empty = (st.history_count = 0)
    /\ appended = <<>>
    /\ before_restart = <<>>
    /\ loaded = Loaded(HistState(ZeroHistory, 0), hfile)

\* add_to_history(state, command, exit_code) at time now.
HistAdd ==
    \E in \in HistInputs :
        /\ n_appends < MaxAppends
        /\ SetStore(add_to_history(Store, in.command, in.code, in.now))
        /\ appended' = Append(appended, in)
        /\ n_appends' = n_appends + 1
        /\ before_restart' = <<>>
        /\ loaded' = <<>>
        /\ UNCHANGED <<from_empty, hfile, procvars, jobvars, iovars, loopvars, reads, raw_line,
                       exp_rc, exp_out, line_execs, exit_status>>

\* clear_history(state)
HistClear ==
    /\ SetStore(clear_history)
    /\ appended' = <<>>
    /\ from_empty' = TRUE
    /\ before_restart' = <<>>
    /\ loaded' = <<>>
    /\ UNCHANGED <<hfile, procvars, jobvars, iovars, loopvars, linevars>>

\* load_history_from_file(state) on the running session's state.
HistLoad ==
    /\ SetStore(load_history_from_file(Store, hfile).st)
    /\ appended' = <<>>
    /\ from_empty' = (history_count' = 0)
    /\ before_restart' = <<>>
    /\ loaded' = Loaded(Store, hfile)
    /\ UNCHANGED <<hfile, procvars, jobvars, iovars, loopvars, linevars>>

\* The session ends and the next one starts: shell_cleanup saves (main.c:42),
\* then shell_init loads into a zeroed state (main.c:29).  before_restart is
\* the store the ended session saved.
HistRestart ==
    /\ hfile' = save_history_to_file(Store, hfile, TRUE)
    /\ SetStore(shell_init_history(hfile'))
    /\ appended' = <<>>
    /\ from_empty' = (history_count' = 0)
    /\ before_restart' = <<Store>>
    /\ loaded' = Loaded(HistState(ZeroHistory, 0), hfile')
    /\ UNCHANGED <<procvars, jobvars, iovars, loopvars, linevars>>

HistNext == HistAdd \/ HistClear \/ HistLoad \/ HistRestart

SpecHist == HistInit /\ [][HistNext]_vars

----------------------------------------------------------------------------
(* The history expander: parser.c *)

\* The loop of lines 151-154: the digit run accumulated in an int.
RECURSIVE NumberOf(_, _)
NumberOf(digits, number) ==
    IF digits = <<>> THEN number
    ELSE NumberOf(Tail(digits), MulAdd10(number, DigitVal(Head(digits))))

\* isalnum(c) || c == '_' || c == '-' (line 172)
PrefixChars == Letters \cup {Digits[d] : d \in 1..10} \cup {"_", "-"}
DigitChars == {Digits[d] : d \in 1..10}

\* strcpy(output + output_pos, history_cmd) when it fits, nothing otherwise
\* (lines 158-162 and 184-188).
Substitute(out, history_cmd, max_output_size) ==
    IF Len(out) + Len(history_cmd) < max_output_size - 1 THEN out \o history_cmd ELSE out

\* The for loop of process_history_expansion from input[at] (0-based) with
\* out written so far: [rc, output].
RECURSIVE ExpandLoop(_, _, _, _, _)
ExpandLoop(st, in, at, out, max_output_size) ==
    IF ~(at < Len(in) /\ Len(out) < max_output_size - 1)
    THEN [rc |-> 0, output |-> out]
    ELSE LET c == in[at + 1]
             follows == at + 1 < Len(in)
             next == IF follows THEN in[at + 2] ELSE ""
             rest == Drop(in, at + 1)
         IN  IF c = "!" /\ follows /\ isdigit(next)
             THEN LET run == strspn(rest, DigitChars)
                      number == NumberOf(Take(rest, run), Int32(0))
                      history_cmd == get_history_by_number(st, IntValue(number))
                  IN  IF history_cmd # NULL
                      THEN ExpandLoop(st, in, at + 1 + run,
                                      Substitute(out, Deref(history_cmd), max_output_size),
                                      max_output_size)
                      ELSE [rc |-> -1, output |-> out]
             ELSE IF c = "!" /\ follows /\ isalpha(next)
                     /\ strspn(rest, PrefixChars) < PREFIX_SIZE - 1
             THEN LET prefix_len == strspn(rest, PrefixChars)
                      history_cmd == get_last_command_by_prefix(st, Take(rest, prefix_len))
                  IN  IF history_cmd # NULL
                      THEN ExpandLoop(st, in, at + 1 + prefix_len,
                                      Substitute(out, Deref(history_cmd), max_output_size),
                                      max_output_size)
                      ELSE [rc |-> -1, output |-> out]
             ELSE ExpandLoop(st, in, at + 1, Append(out, c), max_output_size)

\* process_history_expansion(input, output, max_output_size) with
\* g_shell_state pointing at st, as it does once shell_init has returned.
process_history_expansion(st, in, max_output_size) ==
    ExpandLoop(st, in, 0, <<>>, max_output_size)

----------------------------------------------------------------------------
(* The parser: parser.c, with trim_string and split_string of utils.c *)

Blank == {" ", "\t", NL}

\* trim_string's result: the text between the leading and the trailing
\* whitespace.  The pointer it returns is str + strspn(str, Blank).
RECURSIVE TrimRight(_)
TrimRight(s) ==
    IF Len(s) > 1 /\ isspace(s[Len(s)]) THEN TrimRight(Take(s, Len(s) - 1)) ELSE s

trim_string(str) == TrimRight(Drop(str, strspn(str, Blank)))

\* strstr(s, c): the 1-based position of the first c in s, 0 for NULL.
strstr(s, c) == IF strcspn(s, {c}) < Len(s) THEN strcspn(s, {c}) + 1 ELSE 0

\* The C string that starts at position q of a buffer in which '\0' has been
\* written at the positions of cuts; the buffer's own terminator follows it.
CStr(buf, cuts, q) ==
    LET ends == {c \in cuts : c >= q} \cup {Len(buf) + 1}
        e == CHOOSE x \in ends : \A y \in ends : x <= y
    IN  IF q > Len(buf) THEN <<>> ELSE SubSeq(buf, q, e - 1)

\* input_redir++ ; while (isspace(*input_redir)) input_redir++ ; strdup:
\* the text after the marker at position m, leading whitespace skipped.
AfterMarker(buf, cuts, m) == SkipSpace(CStr(buf, cuts, m + 1))

\* split_string(str, delim): the strtok tokens of str; none is NULL (<<>>).
split_string(str, delim) == strtok(str, delim)

\* parse_arguments: the non-empty parts of the text, at most max_args.
parse_arguments(args_str, max_args) == Take(split_string(args_str, {" ", "\t"}), max_args)

NoCommand ==
    [name |-> NULL, args |-> <<>>, argc |-> 0,
     input_file |-> NULL, output_file |-> NULL, background |-> 0]

\* parse_command(cmd_str, cmd): rc, the command filled in, and whether the
\* pointer given to free is the one strdup returned.
parse_command(cmd_str) ==
    LET trimmed == trim_string(cmd_str)
        owned == strspn(cmd_str, Blank) = 0
        input_redir == strstr(trimmed, "<")
        output_redir == strstr(trimmed, ">")
        background == strstr(trimmed, "&")
        cut1 == IF background # 0 THEN {background} ELSE {}
        cut2 == IF input_redir # 0 THEN cut1 \cup {input_redir} ELSE cut1
        cut3 == IF output_redir # 0 THEN cut2 \cup {output_redir} ELSE cut2
        args == parse_arguments(CStr(trimmed, cut3, 1), MAX_ARGS)
    IN  IF trimmed = <<>>
        THEN [rc |-> -1, cmd |-> NoCommand, frees_owned |-> owned]
        ELSE [rc |-> 0,
              cmd |-> [name |-> IF Len(args) > 0 THEN Ptr(args[1]) ELSE NULL,
                       args |-> args,
                       argc |-> Len(args),
                       input_file |-> IF input_redir # 0
                                      THEN Ptr(AfterMarker(trimmed, cut2, input_redir))
                                      ELSE NULL,
                       output_file |-> IF output_redir # 0
                                       THEN Ptr(AfterMarker(trimmed, cut3, output_redir))
                                       ELSE NULL,
                       background |-> IF background # 0 THEN 1 ELSE 0],
              frees_owned |-> owned]

\* The loop of parse_input over the segments: the commands kept and whether
\* every free was of an owned pointer.
RECURSIVE ParseSegments(_, _, _)
ParseSegments(cmd_strings, parsed, max_commands) ==
    IF cmd_strings = <<>> \/ Len(parsed.commands) >= max_commands THEN parsed
    ELSE LET r == parse_command(Head(cmd_strings))
         IN  ParseSegments(Tail(cmd_strings),
                           [commands |-> IF r.rc = 0 THEN Append(parsed.commands, r.cmd)
                                         ELSE parsed.commands,
                            frees_owned |-> parsed.frees_owned /\ r.frees_owned],
                           max_commands)

\* parse_input(input, commands, max_commands); its result is Len(commands).
parse_input(in, max_commands) ==
    ParseSegments(Take(split_string(in, {";"}), max_commands),
                  [commands |-> <<>>, frees_owned |-> TRUE], max_commands)

is_builtin(cmd_name) ==
    cmd_name \in { <<"c", "d">>,
                   <<"p", "w", "d">>,
                   <<"e", "c", "h", "o">>,
                   <<"e", "x", "i", "t">>,
                   <<"h", "e", "l", "p">>,
                   <<"c", "l", "e", "a", "r">>,
                   <<"h", "i", "s", "t", "o", "r", "y">>,
                   <<"t", "o", "u", "c", "h">>,
                   <<"r", "m">>,
                   <<"m", "k", "d", "i", "r">>,
                   <<"r", "m", "d", "i", "r">>,
                   <<"l", "s">> }

----------------------------------------------------------------------------
(* The dispatcher and the redirection manager: executor.c *)

STDIN_FILENO == 0
STDOUT_FILENO == 1

\* The lowest descriptor not in use, as open and dup return it.
LowestFree(t) == CHOOSE fd \in FDS : t[fd] = Closed /\ \A g \in FDS : g < fd => t[g] # Closed

\* The redirection state: the two saved slots and the descriptor table.
Redir(in_slot, out_slot, t) == [original_stdin |-> in_slot, original_stdout |-> out_slot, fdt |-> t]

\* What the system does for one command: whether each open, dup2 and fork
\* succeeds, and how a child or a built-in ends.  A call that is not reached
\* has no outcome of its own, so one failure at a time covers every path.
AllGo(ends) ==
    [open_in |-> TRUE, dup2_in |-> TRUE, open_out |-> TRUE, dup2_out |-> TRUE,
     fork |-> TRUE, ends |-> ends]
Outcomes ==
    {AllGo(e) : e \in {"exit0", "exit1", "failed", "signaled"}}
    \cup {[AllGo("exit0") EXCEPT ![f] = FALSE] :
             f \in {"open_in", "dup2_in", "open_out", "dup2_out", "fork"}}

\* setup_redirections that duplicates descriptors 0 and 1 into the slots
\* whether or not the slots are empty.
setup_redirections_always_dup(rd, cmd, sys) ==
    LET in_slot == LowestFree(rd.fdt)
        t1 == [rd.fdt EXCEPT ![in_slot] = rd.fdt[STDIN_FILENO]]
        out_slot == LowestFree(t1)
        t2 == [t1 EXCEPT ![out_slot] = t1[STDOUT_FILENO]]
        t3 == IF cmd.input_file # NULL
              THEN [t2 EXCEPT ![STDIN_FILENO] = Stream("file-in", Deref(cmd.input_file))]
              ELSE t2
        t4 == IF cmd.output_file # NULL
              THEN [t3 EXCEPT ![STDOUT_FILENO] = Stream("file-out", Deref(cmd.output_file))]
              ELSE t3
        out_path == IF cmd.output_file # NULL THEN {Deref(cmd.output_file)} ELSE {}
    IN  IF cmd.input_file # NULL /\ ~(sys.open_in /\ sys.dup2_in)
        THEN [rc |-> -1, rd |-> Redir(in_slot, out_slot, t2), truncated |-> {}]
        ELSE IF cmd.output_file # NULL /\ ~(sys.open_out /\ sys.dup2_out)
        THEN [rc |-> -1, rd |-> Redir(in_slot, out_slot, t3),
              truncated |-> IF sys.open_out THEN out_path ELSE {}]
        ELSE [rc |-> 0, rd |-> Redir(in_slot, out_slot, t4), truncated |-> out_path]

\* setup_redirections with the output file opened before the input file.
setup_redirections_output_first(rd, cmd, sys) ==
    LET in_fd == LowestFree(rd.fdt)
        t1 == IF rd.original_stdin = -1
              THEN [rd.fdt EXCEPT ![in_fd] = rd.fdt[STDIN_FILENO]] ELSE rd.fdt
        in_slot == IF rd.original_stdin = -1 THEN in_fd ELSE rd.original_stdin
        out_fd == LowestFree(t1)
        t2 == IF rd.original_stdout = -1
              THEN [t1 EXCEPT ![out_fd] = t1[STDOUT_FILENO]] ELSE t1
        out_slot == IF rd.original_stdout = -1 THEN out_fd ELSE rd.original_stdout
        t3 == IF cmd.output_file # NULL
              THEN [t2 EXCEPT ![STDOUT_FILENO] = Stream("file-out", Deref(cmd.output_file))]
              ELSE t2
        t4 == IF cmd.input_file # NULL
              THEN [t3 EXCEPT ![STDIN_FILENO] = Stream("file-in", Deref(cmd.input_file))]
              ELSE t3
        out_path == IF cmd.output_file # NULL THEN {Deref(cmd.output_file)} ELSE {}
    IN  IF cmd.output_file # NULL /\ ~(sys.open_out /\ sys.dup2_out)
        THEN [rc |-> -1, rd |-> Redir(in_slot, out_slot, t2),
              truncated |-> IF sys.open_out THEN out_path ELSE {}]
        ELSE IF cmd.input_file # NULL /\ ~(sys.open_in /\ sys.dup2_in)
        THEN [rc |-> -1, rd |-> Redir(in_slot, out_slot, t3), truncated |-> out_path]
        ELSE [rc |-> 0, rd |-> Redir(in_slot, out_slot, t4), truncated |-> out_path]

\* setup_redirections(cmd): rc, the redirection state it leaves, and the
\* files its open with O_CREAT | O_TRUNC created or emptied.  The descriptor
\* open returned is closed again on every path, so the table changes only in
\* the saved slots and in descriptors 0 and 1.
setup_redirections(rd, cmd, sys) ==
    LET in_fd == LowestFree(rd.fdt)
        t1 == IF rd.original_stdin = -1
              THEN [rd.fdt EXCEPT ![in_fd] = rd.fdt[STDIN_FILENO]] ELSE rd.fdt
        in_slot == IF rd.original_stdin = -1 THEN in_fd ELSE rd.original_stdin
        out_fd == LowestFree(t1)
        t2 == IF rd.original_stdout = -1
              THEN [t1 EXCEPT ![out_fd] = t1[STDOUT_FILENO]] ELSE t1
        out_slot == IF rd.original_stdout = -1 THEN out_fd ELSE rd.original_stdout
        t3 == IF cmd.input_file # NULL
              THEN [t2 EXCEPT ![STDIN_FILENO] = Stream("file-in", Deref(cmd.input_file))]
              ELSE t2
        t4 == IF cmd.output_file # NULL
              THEN [t3 EXCEPT ![STDOUT_FILENO] = Stream("file-out", Deref(cmd.output_file))]
              ELSE t3
        out_path == IF cmd.output_file # NULL THEN {Deref(cmd.output_file)} ELSE {}
    IN  IF cmd.input_file # NULL /\ ~(sys.open_in /\ sys.dup2_in)
        THEN [rc |-> -1, rd |-> Redir(in_slot, out_slot, t2), truncated |-> {}]
        ELSE IF cmd.output_file # NULL /\ ~(sys.open_out /\ sys.dup2_out)
        THEN [rc |-> -1, rd |-> Redir(in_slot, out_slot, t3),
              truncated |-> IF sys.open_out THEN out_path ELSE {}]
        ELSE [rc |-> 0, rd |-> Redir(in_slot, out_slot, t4), truncated |-> out_path]

\* restore_stdio()
restore_stdio(rd) ==
    LET t1 == IF rd.original_stdin # -1
              THEN [rd.fdt EXCEPT ![STDIN_FILENO] = rd.fdt[rd.original_stdin],
                                  ![rd.original_stdin] = Closed]
              ELSE rd.fdt
        t2 == IF rd.original_stdout # -1
              THEN [t1 EXCEPT ![STDOUT_FILENO] = t1[rd.original_stdout],
                              ![rd.original_stdout] = Closed]
              ELSE t1
    IN  Redir(-1, -1, t2)

\* builtin_echo(args, argc): the text it prints, the arguments after the
\* name with one space between them and a newline at the end.
RECURSIVE EchoFrom(_, _, _)
EchoFrom(args, argc, k) ==
    IF k > argc THEN <<NL>>
    ELSE args[k] \o (IF k < argc THEN <<" ">> ELSE <<>>) \o EchoFrom(args, argc, k + 1)

builtin_echo(args, argc) == EchoFrom(args, argc, 2)

\* builtin_exit(args, argc): the code it returns; it sets g_should_exit.
builtin_exit(args, argc) == IF argc > 1 THEN atoi(args[2]) ELSE 0

\* execute_builtin(cmd): the code the built-in returns.  The bodies other
\* than exit are collaborators: they succeed, fail (-1) or, for the file
\* utilities, succeed in part (1).
execute_builtin(cmd, sys) ==
    LET name == Deref(cmd.name)
    IN  IF name = <<"e", "x", "i", "t">> THEN builtin_exit(cmd.args, cmd.argc)
        ELSE IF name \in {<<"e", "c", "h", "o">>, <<"h", "e", "l", "p">>, <<"c", "l", "e", "a", "r">>} THEN 0
        ELSE IF name = <<"c", "d">> /\ cmd.argc > 2 THEN -1
        ELSE IF name \in {<<"t", "o", "u", "c", "h">>, <<"r", "m">>, <<"m", "k", "d", "i", "r">>, <<"r", "m", "d", "i", "r">>} /\ cmd.argc < 2 THEN -1
        ELSE IF sys.ends = "exit0" THEN 0
        ELSE IF sys.ends = "exit1" /\ name \in {<<"t", "o", "u", "c", "h">>, <<"r", "m">>, <<"m", "k", "d", "i", "r">>, <<"r", "m", "d", "i", "r">>} THEN 1
        ELSE -1

\* WEXITSTATUS / WIFSIGNALED of the status waitpid stored (lines 89-94): a
\* child whose execvp failed called exit(EXIT_FAILURE).
StatusCode(status) ==
    IF status = "exit0" THEN 0
    ELSE IF status \in {"exit1", "failed"} THEN 1
    ELSE -1

\* execute_external that takes a failed fork for a child that exited with 0.
execute_external_fork_unchecked(cmd, sys) ==
    IF ~sys.fork
    THEN [rc |-> 0, forks |-> FALSE, waits |-> FALSE, notice |-> FALSE]
    ELSE IF cmd.background # 0
    THEN [rc |-> 0, forks |-> TRUE, waits |-> FALSE, notice |-> TRUE]
    ELSE [rc |-> StatusCode(sys.ends), forks |-> TRUE, waits |-> TRUE, notice |-> FALSE]

\* execute_external that waits for a background child as for any other.
execute_external_waits_always(cmd, sys) ==
    IF ~sys.fork
    THEN [rc |-> -1, forks |-> FALSE, waits |-> FALSE, notice |-> FALSE]
    ELSE [rc |-> StatusCode(sys.ends), forks |-> TRUE, waits |-> TRUE,
          notice |-> cmd.background # 0]

\* execute_external(cmd) in the parent: whether a child was created, whether
\* the job-started notice was printed, whether waitpid was called, and the
\* code returned: -1 when fork fails, 0 for a background child, else what
\* the status sys.ends that waitpid stored translates to.
execute_external(cmd, sys) ==
    IF ~sys.fork
    THEN [rc |-> -1, forks |-> FALSE, waits |-> FALSE, notice |-> FALSE]
    ELSE IF cmd.background # 0
    THEN [rc |-> 0, forks |-> TRUE, waits |-> FALSE, notice |-> TRUE]
    ELSE [rc |-> StatusCode(sys.ends), forks |-> TRUE, waits |-> TRUE, notice |-> FALSE]

\* waitpid(pid, &status, 0) returns for a terminated child: the one of that
\* pid, or any when pid is -1.
waitpid(ch, pid) == {c \in PIDS : ch[c] \in Ended /\ (pid = -1 \/ c = pid)}

\* The wait of execute_external with -1 for the pid.
AwaitedChild_any(ch, pid) == waitpid(ch, -1)

\* The children whose termination ends the wait of execute_external (line 87).
AwaitedChild(ch, pid) == waitpid(ch, pid)

\* fork() gives the child the lowest pid not in use.
NewPid(ch) == CHOOSE p \in PIDS : ch[p] = "none" /\ \A q \in PIDS : q < p => ch[q] # "none"

\* execute_command(cmd): the code it returns, the redirection state it
\* leaves, whether builtin_exit ran, and what it did on the way: the files
\* emptied, whether a built-in body ran, whether a child was created, whether
\* the notice was printed, and whether it waited for the child.
execute_command(rd, cmd, sys) ==
    LET set == setup_redirections(rd, cmd, sys)
        builtin == is_builtin(Deref(cmd.name))
        x == execute_external(cmd, sys)
        idle == [exit_code |-> -1, rd |-> rd, exits |-> FALSE, truncated |-> {},
                 body |-> FALSE, forks |-> FALSE, notice |-> FALSE, waits |-> FALSE]
    IN  IF cmd.name = NULL THEN idle
        ELSE IF set.rc # 0
        THEN [idle EXCEPT !.rd = set.rd, !.truncated = set.truncated]
        ELSE [exit_code |-> IF builtin THEN execute_builtin(cmd, sys) ELSE x.rc,
              rd |-> restore_stdio(set.rd),
              exits |-> Deref(cmd.name) = <<"e", "x", "i", "t">>,
              truncated |-> set.truncated,
              body |-> builtin,
              forks |-> ~builtin /\ x.forks,
              notice |-> ~builtin /\ x.notice,
              waits |-> ~builtin /\ x.waits]

----------------------------------------------------------------------------
(* Spec: the session loop, shell_run of shell.c, from shell_init on. *)

\* The lines fgets delivers, newline removed.
InputLines ==
    { <<>>,
      <<"l", "s">>,
      <<"e", "x", "i", "t">>,
      <<"e", "x", "i", "t", " ", "3">>,
      <<"e", "x", "i", "t", " ", "3", ";", "l", "s">>,
      <<"!", "7">>,
      <<"!", "1">>,
      <<"!", "q">>,
      <<" ">>,
      <<";">>,
      <<"l", "s", ";", " ">>,
      <<"l", "s", ";", "!", "7">>,
      <<"a", "<", "f", ">", "g">>,
      <<"l", "s", ">", "g">>,
      <<"a", "&">>,
      <<"a", ";", "b">>,
      <<"a", " ", ";", " ", "b">>,
      <<"l", "s", "<", "f">> }

\* time(NULL) while the session runs.
Now == 5

Init ==
    /\ ProcInit
    /\ IoInit
    /\ terminal = InputLines
    /\ hfile = NoFile
    /\ history = ZeroHistory
    /\ history_count = 0
    /\ history_index = 0
    /\ appended = <<>>
    /\ from_empty = TRUE
    /\ before_restart = <<>>
    /\ loaded = <<>>

\* One pass of the while loop from its test to the parse (lines 120-179):
\* current_dir is refreshed, the prompt is printed and stdout flushed, and
\* the line is read, expanded and parsed; an empty line and a line without
\* commands go back to the test.  A free of a pointer malloc did not return
\* either aborts the process or goes unnoticed.
ShellRead ==
    /\ pc = "loop"
    /\ should_exit = 0
    /\ reads < MaxReads
    /\ \E line \in terminal, heap_abort \in BOOLEAN :
        LET x == process_history_expansion(Store, line, MAX_INPUT_SIZE)
            expanded == IF line # <<>> /\ x.rc = 0 THEN x.output ELSE line
            p == IF line = <<>> THEN [commands |-> <<>>, frees_owned |-> TRUE]
                 ELSE parse_input(expanded, MAX_ARGS)
        IN  /\ heap_abort => ~p.frees_owned
            /\ reads' = reads + 1
            /\ raw_line' = line
            /\ exp_rc' = IF line = <<>> THEN 0 ELSE x.rc
            /\ exp_out' = IF line = <<>> THEN <<>> ELSE x.output
            /\ input' = expanded
            /\ line_execs' = 0
            /\ n_appends' = 0
            /\ ran' = <<>>
            /\ last_exec' = NoExec
            /\ stale' = {c \in PIDS : children[c] \in Ended}
            /\ bad_free' = ~p.frees_owned
            /\ IF heap_abort
               THEN /\ pc' = "aborted"
                    /\ UNCHANGED <<commands, cmd_count, i>>
               ELSE /\ commands' = p.commands
                    /\ cmd_count' = Len(p.commands)
                    /\ i' = 0
                    /\ pc' = IF Len(p.commands) <= 0 THEN "loop" ELSE "exec"
    /\ dir_written' = DirBytes(cwd)
    /\ sent' = fflush(stdout_buf, sent, fdt)
    /\ stdout_buf' = <<>>
    /\ UNCHANGED <<exit_code, should_exit, retval, exit_status, histvars, storevars,
                   hfile, procvars, children, fg_pid, stdout_mode, cwd,
                   current_dir_size>>

\* One pass of the for loop (lines 182-191) up to the return of
\* execute_command or, for a foreground external command whose child was
\* created, up to its waitpid: commands[i] is executed and the line is added
\* to the history with its exit code; a command without a name is passed
\* over.  fork fails when the system has no process to give.
ShellExec ==
    /\ pc = "exec"
    /\ LET cmd == commands[i + 1]
           last == i + 1 >= cmd_count
       IN  IF cmd.name = NULL
           THEN /\ i' = i + 1
                /\ pc' = IF last THEN "check" ELSE "exec"
                /\ last_exec' = NoExec
                /\ UNCHANGED <<exit_code, exit_status, histvars, procvars,
                               line_execs, n_appends, children, fg_pid, ran,
                               stdout_buf, sent, cwd>>
           ELSE \E sys \in Outcomes :
                LET rd == Redir(original_stdin, original_stdout, fdt)
                    r == execute_command(rd, cmd, sys)
                    set == setup_redirections(rd, cmd, sys)
                    pid == IF r.forks THEN NewPid(children) ELSE 0
                    st == add_to_history(Store, input, r.exit_code, Now)
                    did == [kind |-> IF set.rc # 0 THEN "redir_failed"
                                     ELSE IF is_builtin(Deref(cmd.name)) THEN "builtin"
                                     ELSE IF ~r.forks THEN "fork_failed"
                                     ELSE IF cmd.background # 0 THEN "background"
                                     ELSE "foreground",
                            name |-> Deref(cmd.name),
                            rc |-> IF r.waits THEN <<>> ELSE <<r.exit_code>>,
                            pid |-> pid,
                            status |-> "none",
                            forks |-> r.forks,
                            body |-> r.body,
                            notice |-> r.notice,
                            truncated |-> r.truncated,
                            input_failed |-> cmd.input_file # NULL /\ ~sys.open_in]
                    name == Deref(cmd.name)
                    printed == IF r.body /\ name = <<"e", "c", "h", "o">>
                               THEN <<[text |-> builtin_echo(cmd.args, cmd.argc),
                                       want |-> set.rd.fdt[STDOUT_FILENO]]>>
                               ELSE <<>>
                    target_dir == IF cmd.argc = 2 THEN cmd.args[2] ELSE HOME
                    changes == r.body /\ name = <<"c", "d">> /\ r.exit_code = 0
                IN  /\ r.forks => \E c \in PIDS : children[c] = "none"
                    /\ changes => target_dir \in Dirs
                    /\ cwd' = IF changes THEN target_dir ELSE cwd
                    /\ IF stdout_mode = "line"
                       THEN /\ sent' = fflush(stdout_buf \o printed, sent, set.rd.fdt)
                            /\ stdout_buf' = <<>>
                       ELSE /\ sent' = sent
                            /\ stdout_buf' = stdout_buf \o printed
                    /\ children' = IF r.forks THEN [children EXCEPT ![pid] = "running"]
                                   ELSE children
                    /\ ran' = Append(ran, Deref(cmd.name))
                    /\ line_execs' = line_execs + 1
                    /\ last_exec' = did
                    /\ IF r.waits
                       THEN /\ pc' = "wait"
                            /\ fg_pid' = pid
                            /\ original_stdin' = set.rd.original_stdin
                            /\ original_stdout' = set.rd.original_stdout
                            /\ fdt' = set.rd.fdt
                            /\ UNCHANGED <<exit_code, g_should_exit, exit_status,
                                           histvars, n_appends, i>>
                       ELSE /\ exit_code' = r.exit_code
                            /\ original_stdin' = r.rd.original_stdin
                            /\ original_stdout' = r.rd.original_stdout
                            /\ fdt' = r.rd.fdt
                            /\ g_should_exit' = IF r.exits THEN 1 ELSE g_should_exit
                            /\ exit_status' = IF r.exits THEN <<r.exit_code>> ELSE exit_status
                            /\ SetStore(st)
                            /\ n_appends' = n_appends + (IF input # <<>> THEN 1 ELSE 0)
                            /\ i' = i + 1
                            /\ pc' = IF last \/ should_exit # 0 THEN "check" ELSE "exec"
                            /\ UNCHANGED fg_pid
                    /\ UNCHANGED <<g_signal_received, terminal>>
    /\ UNCHANGED <<should_exit, input, commands, cmd_count, retval, reads, raw_line,
                   exp_rc, exp_out, storevars, hfile, stale, stdout_mode,
                   current_dir_size, dir_written, bad_free>>

\* The rest of that pass for a foreground external command: waitpid returns
\* with the status of the child (executor.c:87-94), execute_command restores
\* the streams (executor.c:49-51), and the line is added to the history.
ShellWait ==
    /\ pc = "wait"
    /\ \E c \in AwaitedChild(children, fg_pid) :
        LET cmd == commands[i + 1]
            x == execute_external(cmd, AllGo(children[c]))
            rd == restore_stdio(Redir(original_stdin, original_stdout, fdt))
            st == add_to_history(Store, input, x.rc, Now)
        IN  /\ children' = [children EXCEPT ![c] = "none"]
            /\ fg_pid' = 0
            /\ exit_code' = x.rc
            /\ original_stdin' = rd.original_stdin
            /\ original_stdout' = rd.original_stdout
            /\ fdt' = rd.fdt
            /\ SetStore(st)
            /\ n_appends' = n_appends + (IF input # <<>> THEN 1 ELSE 0)
            /\ last_exec' = [last_exec EXCEPT !.rc = <<x.rc>>, !.status = children[c]]
            /\ i' = i + 1
            /\ pc' = IF i + 1 >= cmd_count \/ should_exit # 0 THEN "check" ELSE "exec"
    /\ UNCHANGED <<should_exit, input, commands, cmd_count, retval, reads, raw_line,
                   exp_rc, exp_out, line_execs, exit_status, storevars, hfile,
                   g_signal_received, g_should_exit, terminal, ran, stale, iovars>>

\* A child of the shell terminates, in one of the ways a process ends.
ChildExit ==
    /\ pc \in {"loop", "exec", "wait", "check"}
    /\ \E c \in PIDS, status \in Ended :
        /\ children[c] = "running"
        /\ children' = [children EXCEPT ![c] = status]
    /\ UNCHANGED <<procvars, loopvars, histvars, storevars, hfile, linevars,
                   fg_pid, ran, last_exec, stale, iovars>>

\* The end of a pass that ran commands (lines 193-206): the commands are
\* freed, then a pending signal sends the loop back to its test, and
\* otherwise a set g_should_exit ends it; shell_run returns exit_code and
\* the process, ending, flushes stdout.
ShellCheck ==
    /\ pc = "check"
    /\ commands' = <<>>
    /\ IF g_signal_received # 0
       THEN /\ g_signal_received' = 0
            /\ pc' = "loop"
            /\ UNCHANGED <<should_exit, retval, stdout_buf, sent>>
       ELSE IF g_should_exit # 0
       THEN /\ should_exit' = 1
            /\ pc' = "done"
            /\ retval' = <<exit_code>>
            /\ sent' = fflush(stdout_buf, sent, fdt)
            /\ stdout_buf' = <<>>
            /\ UNCHANGED g_signal_received
       ELSE /\ pc' = "loop"
            /\ UNCHANGED <<should_exit, retval, g_signal_received, stdout_buf, sent>>
    /\ UNCHANGED <<exit_code, input, cmd_count, i, histvars, storevars, hfile, linevars,
                   g_should_exit, original_stdin, original_stdout, fdt, terminal,
                   jobvars, stdout_mode, cwd, current_dir_size, dir_written, bad_free>>

\* A pass of the while loop in which fgets meets the end of the input
\* (lines 120-153): current_dir is refreshed, the prompt is printed and
\* stdout flushed, and the loop is left.
ShellEof ==
    /\ pc = "loop"
    /\ should_exit = 0
    /\ pc' = "done"
    /\ retval' = <<exit_code>>
    /\ dir_written' = DirBytes(cwd)
    /\ sent' = fflush(stdout_buf, sent, fdt)
    /\ stdout_buf' = <<>>
    /\ UNCHANGED <<exit_code, should_exit, input, commands, cmd_count, i, histvars,
                   storevars, hfile, linevars, procvars, jobvars, stdout_mode, cwd,
                   current_dir_size, bad_free>>

\* signal_handler(sig), at any point of the running session, for the two
\* signals main installs it for; on SIGINT it flushes stdout.
SignalHandler ==
    /\ pc \in {"loop", "exec", "wait", "check"}
    /\ g_signal_received' = 1
    /\ \E sig \in {"SIGINT", "SIGTSTP"} :
        IF sig = "SIGINT"
        THEN /\ sent' = fflush(stdout_buf, sent, fdt)
             /\ stdout_buf' = <<>>
        ELSE UNCHANGED <<stdout_buf, sent>>
    /\ UNCHANGED <<g_should_exit, original_stdin, original_stdout, fdt, terminal,
                   loopvars, histvars, storevars, hfile, linevars, jobvars,
                   stdout_mode, cwd, current_dir_size, dir_written, bad_free>>

Next ==
    ShellRead \/ ShellExec \/ ShellWait \/ ShellCheck \/ ShellEof \/ SignalHandler
        \/ ChildExit

Spec == Init /\ [][Next]_vars

----------------------------------------------------------------------------
(* SpecJobs: the session loop over lines that run external commands, in the *)
(* foreground and in the background, with and without redirections.        *)

JobLines ==
    { <<"a">>,
      <<"a", "&">>,
      <<"a", "&", ";", "b">>,
      <<"l", "s">>,
      <<"a", "<", "f", ">", "g">>,
      <<"l", "s", "<", "f", ">", "g">> }

JobsInit ==
    /\ ProcInit
    /\ IoInit
    /\ terminal = JobLines
    /\ hfile = NoFile
    /\ history = ZeroHistory
    /\ history_count = 0
    /\ history_index = 0
    /\ appended = <<>>
    /\ from_empty = TRUE
    /\ before_restart = <<>>
    /\ loaded = <<>>

SpecJobs == JobsInit /\ [][Next]_vars

----------------------------------------------------------------------------
(* SpecIO: the session loop over lines that print and that change the     *)
(* directory, started in any directory, with stdout a terminal (line      *)
(* buffered) or a pipe or file (fully buffered).                          *)

IOLines ==
    { <<>>,
      <<"a">>,
      <<"e", "c", "h", "o", " ", "a">>,
      <<"e", "c", "h", "o", " ", "h", "i", ">", "o">>,
      <<"c", "d", " ", "/">>,
      <<"c", "d", " ", "/", "a", "/", "b">> }

IOInit ==
    /\ ProcInit
    /\ stdout_mode \in {"line", "full"}
    /\ stdout_buf = <<>>
    /\ sent = {}
    /\ cwd \in Dirs
    /\ current_dir_size = DirBytes(cwd)
    /\ dir_written = 0
    /\ bad_free = FALSE
    /\ terminal = IOLines
    /\ hfile = NoFile
    /\ history = ZeroHistory
    /\ history_count = 0
    /\ history_index = 0
    /\ appended = <<>>
    /\ from_empty = TRUE
    /\ before_restart = <<>>
    /\ loaded = <<>>

SpecIO == IOInit /\ [][Next]_vars

----------------------------------------------------------------------------
(* SpecExp: the expander applied to lines over histories that appends built. *)

ExpTexts ==
    { <<"l", "s">>,
      <<"l", "s", " ", "-", "l">>,
      <<"p", "w", "d">>,
      <<"!", "2">>,
      <<"e", "c", "h", "o", " ", "!", "2", ";", "p", "w", "d">> }

ExpInputs ==
    { <<"!", "1">>,
      <<"!", "2">>,
      <<"!", "3">>,
      <<"!", "0">>,
      <<"!", "0", "1">>,
      <<"a", " ", "!", "2", " ", "b">>,
      <<"!", "1", "!", "1">>,
      <<"!", "4", "2", "9", "4", "9", "6", "7", "2", "9", "7">>,
      <<"!", "l">>,
      <<"!", "l", "s">>,
      <<"!", "p">>,
      <<"x", "!", "l", "s", " ", "y">>,
      <<"!", "q">>,
      <<"!", "l", "s", "-", "l", "a">>,
      <<"!">>,
      <<"a", "!">>,
      <<"!", " ", "1">>,
      <<"!", "1", " ", "-", "l", "a", " ", "-", "l", "a">>,
      <<"l", "s">> }

ExpInit ==
    /\ ProcInit
    /\ IoInit
    /\ terminal = {}
    /\ hfile = NoFile
    /\ history = ZeroHistory
    /\ history_count = 0
    /\ history_index = 0
    /\ appended = <<>>
    /\ from_empty = TRUE
    /\ before_restart = <<>>
    /\ loaded = <<>>

\* add_to_history of a line a session ran.
ExpAppend ==
    \E text \in ExpTexts :
        /\ Len(appended) < MaxAppends
        /\ SetStore(add_to_history(Store, text, 0, 5))
        /\ appended' = Append(appended, [command |-> text, code |-> 0, now |-> 5])
        /\ raw_line' = <<>>
        /\ exp_rc' = 0
        /\ exp_out' = <<>>
        /\ UNCHANGED <<from_empty, before_restart, loaded, hfile, procvars, jobvars, iovars, loopvars,
                       reads, line_execs, n_appends, exit_status>>

\* process_history_expansion(input, expanded_input, sizeof(expanded_input))
\* as shell_run calls it (shell.c:166-167).
ExpExpand ==
    \E line \in ExpInputs :
        LET r == process_history_expansion(Store, line, MAX_INPUT_SIZE)
        IN  /\ raw_line' = line
            /\ exp_rc' = r.rc
            /\ exp_out' = r.output
            /\ UNCHANGED <<histvars, storevars, hfile, procvars, jobvars, iovars, loopvars,
                           reads, line_execs, n_appends, exit_status>>

ExpNext == ExpAppend \/ ExpExpand

SpecExp == ExpInit /\ [][ExpNext]_vars

----------------------------------------------------------------------------
(* SpecParse: parse_input applied to every short line of command words,    *)
(* blanks and markers, and to some lines of several segments.              *)

ParseAlphabet == {"a", "f", " ", "<", ">", "&"}

ParseLines ==
    UNION {[1..n -> ParseAlphabet] : n \in 1..MaxSeg}
    \cup { <<"a", ";", ">", "f">>,
           <<">", "f", ";", "a">>,
           <<"a", ";", "&", ";", "f">>,
           <<"a", "<", "f", ";", "f", ">", "a", "&">>,
           <<"a", "&", ";", "<", "f">> }

ParseInit ==
    /\ ProcInit
    /\ IoInit
    /\ terminal = {}
    /\ hfile = NoFile
    /\ history = ZeroHistory
    /\ history_count = 0
    /\ history_index = 0
    /\ appended = <<>>
    /\ from_empty = TRUE
    /\ before_restart = <<>>
    /\ loaded = <<>>

\* parse_input(input, commands, MAX_ARGS) as shell_run calls it
\* (shell.c:175-176).  A free of a pointer malloc did not return either
\* aborts the process or goes unnoticed.
ParseLine ==
    /\ pc = "loop"
    /\ \E line \in ParseLines, heap_abort \in BOOLEAN :
        LET p == parse_input(line, MAX_ARGS)
        IN  /\ heap_abort => ~p.frees_owned
            /\ input' = line
            /\ raw_line' = line
            /\ bad_free' = ~p.frees_owned
            /\ IF heap_abort
               THEN /\ pc' = "aborted"
                    /\ UNCHANGED <<commands, cmd_count>>
               ELSE /\ commands' = p.commands
                    /\ cmd_count' = Len(p.commands)
                    /\ pc' = "parsed"
    /\ UNCHANGED <<exit_code, should_exit, i, retval, histvars, storevars, hfile,
                   procvars, jobvars, reads, exp_rc, exp_out, line_execs, n_appends,
                   exit_status, stdout_mode, stdout_buf, sent, cwd, current_dir_size,
                   dir_written>>

ParseNext == ParseLine

SpecParse == ParseInit /\ [][ParseNext]_vars

----------------------------------------------------------------------------
(* Properties of the history store, under SpecHist. *)

\* C5: save_history_to_file followed by load_history_from_file into a fresh
\* session state yields the same ordered entries (command text, timestamp and
\* exit code at each position) and the same history_count, for every history
\* state.
C5_RoundTrip ==
    before_restart # <<>> =>
        LET old == before_restart[1]
        IN  /\ history_count = old.history_count
            /\ \A k \in 0..(old.history_count - 1) : history[k] = old.history[k]

\* C6: in every reachable state 0 <= history_count <= capacity, and every slot
\* below history_count holds a non-empty command text.
C6_CountAndSlots ==
    /\ history_count \in 0..MAX_HISTORY_SIZE
    /\ \A k \in 0..(history_count - 1) : history[k].command # <<>>

\* A full store that a load filled and a later append shifted.
C6_Witness ==
    /\ history_count = MAX_HISTORY_SIZE
    /\ ~from_empty
    /\ appended # <<>>
    /\ appended[Len(appended)].command # <<>>
    /\ history[MAX_HISTORY_SIZE - 1].command = appended[Len(appended)].command

IsText(in) == in.command # <<>>
EntryOf(in) == [command |-> in.command, timestamp |-> in.now, exit_code |-> in.code]
Min(a, b) == IF a < b THEN a ELSE b

\* C7: after k non-empty appends onto an empty store the store holds exactly
\* the last min(k, capacity) appended entries in append order, so that
\* get_history_by_number(idx) is the (k - min(k, capacity) + idx)-th appended
\* text and the number after the last is not found; appends of an empty text
\* leave no trace.
C7_FifoEviction ==
    from_empty =>
        LET a == SelectSeq(appended, IsText)
            k == Len(a)
            n == Min(k, MAX_HISTORY_SIZE)
        IN  /\ history_count = n
            /\ \A idx \in 1..n :
                  /\ history[idx - 1] = EntryOf(a[k - n + idx])
                  /\ get_history_by_number(Store, idx) = Ptr(a[k - n + idx].command)
            /\ get_history_by_number(Store, n + 1) = NULL

\* capacity + 1 non-empty appends and an empty one onto an empty store.
C7_Witness ==
    /\ from_empty
    /\ Len(SelectSeq(appended, IsText)) = MAX_HISTORY_SIZE + 1
    /\ Len(appended) > MAX_HISTORY_SIZE + 1

\* C21: a load from a file larger than MAX_HISTORY_FILE_SIZE fails and leaves
\* the history as it was, no entry loaded; a load without a file succeeds and
\* leaves the history as it was.
C21_OversizeOrMissingFile ==
    (loaded # <<>> /\ (hfile = NoFile \/ Len(hfile) > MAX_HISTORY_FILE_SIZE)) =>
        /\ Store = loaded[1].before
        /\ loaded[1].rc = IF hfile = NoFile THEN 0 ELSE -1

\* A running session with entries loaded from a file over the limit.
C21_Witness ==
    /\ loaded # <<>>
    /\ hfile # NoFile
    /\ Len(hfile) > MAX_HISTORY_FILE_SIZE
    /\ loaded[1].rc = -1
    /\ history_count > 0

----------------------------------------------------------------------------
(* Properties of the session loop, under Spec. *)

\* C1: when the history expansion of a line fails, the loop rejects the whole
\* line: no command of it is executed and no history entry is appended for it.
C1_FailedExpansionRejectsLine ==
    (raw_line # <<>> /\ exp_rc = -1) => (line_execs = 0 /\ n_appends = 0)

\* C2: whenever execute_command has returned, standard input and standard
\* output are the streams they were before the call and no saved descriptor
\* is outstanding (original_stdin = original_stdout = -1).
C2_StdioRestored ==
    pc # "wait" =>
    /\ fdt[STDIN_FILENO] = TermIn
    /\ fdt[STDOUT_FILENO] = TermOut
    /\ original_stdin = -1
    /\ original_stdout = -1

\* C3: once the exit built-in has executed, no later command is executed and
\* no further line is read.
C3_ExitUnwinds ==
    [][exit_status # <<>> => (reads' = reads /\ line_execs' = line_execs)]_vars

\* C4: when the shell terminates because the exit built-in ran, shell_run
\* returns the numeric argument of that exit (0 without an argument).
C4_ExitStatusReturned ==
    (pc = "done" /\ should_exit = 1) => retval = exit_status

OnlyBlank(line) == line # <<>> /\ \A k \in 1..Len(line) : line[k] \in Blank \cup {";"}

\* C10: a line of whitespace and separators only yields zero commands and the
\* loop takes no action: nothing is executed, no history entry is appended,
\* the last exit code is unchanged, and the loop goes on to the next read.
C10_BlankLineNoAction ==
    [][(reads' = reads + 1 /\ OnlyBlank(raw_line')) =>
          /\ pc' = "loop"
          /\ cmd_count' = 0
          /\ line_execs' = 0
          /\ exit_code' = exit_code
          /\ UNCHANGED histvars]_vars

\* The command names a line asks for, left to right: of each segment between
\* separators, the first word before any marker.
WordsOf(seg) == strtok(Take(seg, strcspn(seg, {"<", ">", "&"})), Blank)
HasWord(seg) == WordsOf(seg) # <<>>
SegmentNames(line) ==
    LET segs == SelectSeq(strtok(line, {";"}), HasWord)
    IN  [k \in 1..Len(segs) |-> WordsOf(segs[k])[1]]
IsPrefixOf(s, t) == Len(s) <= Len(t) /\ s = Take(t, Len(s))

\* C11: the commands of a line with several segments, none of them exit, are
\* each executed exactly once, from left to right, whatever the exit codes:
\* what has been executed is always a prefix of the line's commands, and all
\* of them once the pass over the line is over.
C11_SegmentsIndependent ==
    LET names == SegmentNames(input)
    IN  (Len(names) >= 2 /\ \A k \in 1..Len(names) : names[k] # <<"e", "x", "i", "t">>)
            => /\ IsPrefixOf(ran, names)
               /\ pc \notin {"exec", "wait"} => ran = names

\* C22: the loop clears the signal flag once per iteration: at the end of
\* every iteration, whether its line was empty, gave no command or was
\* executed, the flag is clear; and the flag skips no parsed command: the
\* pass over the commands ends only after the last of them.
C22_SignalFlagClearedEachIteration ==
    [][/\ (pc' = "loop" /\ (reads' = reads + 1 \/ pc = "check")) => g_signal_received' = 0
       /\ (pc \in {"exec", "wait"} /\ pc' = "check") => i' = cmd_count]_vars

\* The text of each command of a line, left to right: the segments that hold
\* a command word, without the whitespace around them.
SegmentTexts(line) ==
    LET segs == SelectSeq(strtok(line, {";"}), HasWord)
    IN  [k \in 1..Len(segs) |-> trim_string(segs[k])]

\* C24: after each executed command the newest history entry is the one
\* appended for it: it carries the command's exit code, which is also the
\* session's exit code, and the text of that command as executed; the line
\* has added as many entries as it has executed commands.
C24_OneEntryPerCommand ==
    (ran # <<>> /\ last_exec.rc # <<>>) =>
        /\ n_appends = Len(ran)
        /\ exit_code = last_exec.rc[1]
        /\ history_count > 0
        /\ history[history_count - 1].exit_code = last_exec.rc[1]
        /\ history[history_count - 1].command = SegmentTexts(input)[Len(ran)]

----------------------------------------------------------------------------
(* Properties of external commands and redirections, under SpecJobs. *)

\* C12: for a background external command whose child was created,
\* execute_external prints the job-started notice and returns 0 without
\* waiting: the command's pass of the loop ends in the step that created the
\* child, with exit code 0 and the child still running.
C12_BackgroundReturnsAtOnce ==
    [][(i' = i + 1 /\ last_exec'.kind = "background") =>
          /\ pc # "wait"
          /\ exit_code' = 0
          /\ last_exec'.notice
          /\ last_exec'.rc = <<0>>
          /\ children'[last_exec'.pid] = "running"]_vars

\* A later line was read and its command executed while the background
\* child of the first line is still running.
C12_Witness ==
    /\ reads = 2
    /\ raw_line = <<"l", "s">>
    /\ line_execs = 1
    /\ pc = "check"
    /\ \E c \in PIDS : children[c] = "running"

\* C13: the loop harvests terminated background children: those that had
\* terminated when a line was read are reaped by the end of the pass that
\* executed the line.
C13_TerminatedChildrenReaped ==
    [][(pc = "check" /\ pc' # "check") =>
          stale \cap {c \in PIDS : children'[c] \in Ended} = {}]_vars

C15_ForegroundWaitsForItsChild ==
    [][(pc = "wait" /\ pc' # "wait") =>
          /\ children[fg_pid] \in Ended
          /\ children[fg_pid] = "exit0" => exit_code' = 0
          /\ children[fg_pid] \in {"exit1", "failed"} => exit_code' = 1
          /\ children[fg_pid] = "signaled" => exit_code' = -1]_vars

\* A foreground child died by a signal while a background child had already
\* terminated and was not waited for.
C15_Witness ==
    /\ last_exec.kind = "foreground"
    /\ last_exec.status = "signaled"
    /\ last_exec.rc = <<-1>>
    /\ \E c \in PIDS : children[c] \in Ended

\* C20: when the input file of a command cannot be opened, execute_command
\* returns -1, creates no child and runs no built-in body, and the output
\* file of the command is neither created nor emptied.
C20_InputFailureStopsCommand ==
    last_exec.input_failed =>
        /\ last_exec.rc = <<-1>>
        /\ exit_code = -1
        /\ ~last_exec.forks
        /\ ~last_exec.body
        /\ last_exec.truncated = {}

C20_Witness ==
    /\ last_exec.input_failed
    /\ raw_line = <<"l", "s", "<", "f", ">", "g">>
    /\ last_exec.name = <<"l", "s">>
    /\ pc = "check"

\* C26: a filled slot holds a duplicate of the stream the session started
\* with, also after a set-up that failed and left the slots filled; and when
\* a slot is empty the descriptor it stands for is that stream again.
C26_SlotsHoldOriginalStreams ==
    /\ original_stdin # -1 => fdt[original_stdin] = TermIn
    /\ original_stdout # -1 => fdt[original_stdout] = TermOut
    /\ original_stdin = -1 => fdt[STDIN_FILENO] = TermIn
    /\ original_stdout = -1 => fdt[STDOUT_FILENO] = TermOut

\* A command without input redirection is set up while standard input is
\* still the file an earlier, failed set-up left there, and the slot holds
\* the session's own stream.
C26_Witness ==
    /\ pc = "wait"
    /\ commands[i + 1].input_file = NULL
    /\ fdt[STDIN_FILENO].kind = "file-in"
    /\ original_stdin # -1
    /\ fdt[original_stdin] = TermIn

----------------------------------------------------------------------------
(* Properties of the parser, under SpecParse. *)

\* The places of a line: of the first c, 0 when there is none, and how many.
PlaceOf(line, c) == IF c \in {line[k] : k \in 1..Len(line)} THEN strcspn(line, {c}) + 1 ELSE 0
CountOf(line, c) == Cardinality({k \in 1..Len(line) : line[k] = c})
Trimmed(text) == text = <<>> \/ (Head(text) \notin Blank /\ text[Len(text)] \notin Blank)

\* A segment in the documented order: words, then one `<` and a file name,
\* then one `>` and a file name, then `&` at the end.
DocumentedOrder(line) ==
    /\ CountOf(line, "<") = 1 /\ CountOf(line, ">") = 1
    /\ CountOf(line, "&") = 1 /\ CountOf(line, ";") = 0
    /\ PlaceOf(line, "<") < PlaceOf(line, ">")
    /\ PlaceOf(line, "&") = Len(line)
    /\ WordsOf(line) # <<>>
    /\ Len(strtok(SubSeq(line, PlaceOf(line, "<") + 1, PlaceOf(line, ">") - 1), Blank)) = 1
    /\ Len(strtok(SubSeq(line, PlaceOf(line, ">") + 1, Len(line) - 1), Blank)) = 1

\* C16: a segment in the documented order parses to the command named by its
\* first word, with its words as arguments, the name after `<` as input
\* file, the name after `>` as output file, and the background flag set.
C16_DocumentedOrder ==
    (pc = "parsed" /\ DocumentedOrder(input)) =>
        /\ cmd_count = 1
        /\ commands[1].name = Ptr(WordsOf(input)[1])
        /\ commands[1].args = WordsOf(input)
        /\ commands[1].input_file =
               Ptr(strtok(SubSeq(input, PlaceOf(input, "<") + 1, PlaceOf(input, ">") - 1), Blank)[1])
        /\ commands[1].output_file =
               Ptr(strtok(SubSeq(input, PlaceOf(input, ">") + 1, Len(input) - 1), Blank)[1])
        /\ commands[1].background = 1

\* C17: a file name stored for a redirection has no whitespace at its start
\* and none at its end.
C17_FileNamesTrimmed ==
    pc = "parsed" =>
        \A k \in 1..cmd_count :
            /\ commands[k].input_file # NULL => Trimmed(Deref(commands[k].input_file))
            /\ commands[k].output_file # NULL => Trimmed(Deref(commands[k].output_file))

\* C18: in a segment with `&`, what follows the first `&` is discarded: a
\* marker after it sets no file and no text after it becomes an argument.
C18_AfterBackgroundDiscarded ==
    (pc = "parsed" /\ cmd_count = 1 /\ CountOf(input, ";") = 0 /\ CountOf(input, "&") > 0) =>
        LET kept == Take(input, PlaceOf(input, "&") - 1)
        IN  /\ CountOf(kept, "<") = 0 => commands[1].input_file = NULL
            /\ CountOf(kept, ">") = 0 => commands[1].output_file = NULL
            /\ commands[1].args = WordsOf(kept)

\* C19: a segment without arguments is not among the commands parse_input
\* returns: there are as many commands as segments with a command word, and
\* each has arguments, the first of them its name.
C19_NoCommandWithoutArguments ==
    pc = "parsed" =>
        /\ cmd_count = Len(SegmentNames(input))
        /\ \A k \in 1..cmd_count :
               /\ commands[k].argc > 0
               /\ commands[k].args # <<>>
               /\ commands[k].name = Ptr(commands[k].args[1])

\* C27: parse_command frees only what it owns: on every path the pointer it
\* passes to free is the one its strdup of the segment returned, for every
\* segment, those with leading whitespace and those of whitespace only
\* included.
C27_FreesOnlyOwnedMemory ==
    ~bad_free

----------------------------------------------------------------------------
(* Properties of built-in output and of the directory, under SpecIO. *)

\* C23: a built-in run with an output redirection truncates the target
\* file, all that it prints ends up in that file and none of it in the
\* original standard output, and after the call standard output is the
\* original stream again, so that what a following command prints goes to
\* the original stream.
C23_BuiltinOutputRedirected ==
    /\ \A r \in sent : r.dest = r.want
    /\ (/\ pc \in {"exec", "check"}
        /\ last_exec.kind = "builtin"
        /\ last_exec.name = <<"e", "c", "h", "o">>
        /\ commands[i].output_file # NULL)
       => /\ last_exec.truncated = {Deref(commands[i].output_file)}
          /\ fdt[STDOUT_FILENO] = TermOut
          /\ original_stdout = -1

\* C28: the refresh of current_dir at the top of the loop never writes more
\* bytes than shell_init allocated for it, whatever cd commands ran before.
C28_CurrentDirWithinAllocation ==
    dir_written <= current_dir_size

----------------------------------------------------------------------------
(* Properties of the history expander, under SpecExp. *)

\* The positions of '!' in a line, and the one reference of a line that holds
\* a single '!' followed by a character of the class first.
Bangs(line) == {q \in 1..Len(line) : line[q] = "!"}
SoleBang(line) == CHOOSE q \in Bangs(line) : TRUE

\* The decimal value of a digit run; a run of more than four significant
\* digits stands for a number above any history_count.
RefNumber(digits) ==
    LET sig == Drop(digits, strspn(digits, {"0"}))
    IN  IF Len(sig) > 4 THEN 10000 ELSE DigitRun(sig, 0)

\* C8: for 1 <= n <= history_count, expanding a line that contains !n
\* replaces exactly the '!' and its digit run with the text of the n-th entry
\* and leaves the surrounding text unchanged; get_history_by_number returns
\* not-found for every n < 1 and every n > history_count.
C8_IndexReference ==
    /\ \A n \in (0 - 2)..(MAX_HISTORY_SIZE + 2) :
          (n < 1 \/ n > history_count) => get_history_by_number(Store, n) = NULL
    /\ (Cardinality(Bangs(raw_line)) = 1
          /\ SoleBang(raw_line) < Len(raw_line)
          /\ isdigit(raw_line[SoleBang(raw_line) + 1])) =>
          LET q == SoleBang(raw_line)
              run == strspn(Drop(raw_line, q), DigitChars)
              n == RefNumber(SubSeq(raw_line, q + 1, q + run))
          IN  (1 <= n /\ n <= history_count) =>
                  /\ exp_rc = 0
                  /\ exp_out = Take(raw_line, q - 1) \o history[n - 1].command
                                   \o Drop(raw_line, q + run)

\* C9: expanding !prefix substitutes the text of the entry with the highest
\* index among those whose text starts with the prefix; when no entry
\* matches, the expansion returns an error.
C9_PrefixReference ==
    (Cardinality(Bangs(raw_line)) = 1
        /\ SoleBang(raw_line) < Len(raw_line)
        /\ isalpha(raw_line[SoleBang(raw_line) + 1])) =>
        LET q == SoleBang(raw_line)
            run == strspn(Drop(raw_line, q), PrefixChars)
            prefix == SubSeq(raw_line, q + 1, q + run)
            matches == {k \in 0..(history_count - 1) : HasPrefix(history[k].command, prefix)}
        IN  IF matches = {} THEN exp_rc = -1
            ELSE LET newest == CHOOSE k \in matches : \A m \in matches : m <= k
                 IN  /\ exp_rc = 0
                     /\ exp_out = Take(raw_line, q - 1) \o history[newest].command
                                      \o Drop(raw_line, q + run)

\* The reference that starts at in[at] (0-based): the length of its digit
\* run or prefix and the entry the store resolves it to, NULL when in[at]
\* starts no reference or the store has no entry for it.
ReferenceAt(st, in, at) ==
    LET c == in[at + 1]
        follows == at + 1 < Len(in)
        next == IF follows THEN in[at + 2] ELSE ""
        rest == Drop(in, at + 1)
        run == IF c = "!" /\ follows /\ isdigit(next) THEN strspn(rest, DigitChars)
               ELSE IF c = "!" /\ follows /\ isalpha(next)
                       /\ strspn(rest, PrefixChars) < PREFIX_SIZE - 1
               THEN strspn(rest, PrefixChars)
               ELSE 0
    IN  [run |-> run,
         entry |-> IF run = 0 THEN NULL
                   ELSE IF isdigit(next)
                   THEN get_history_by_number(st, IntValue(NumberOf(Take(rest, run), Int32(0))))
                   ELSE get_last_command_by_prefix(st, Take(rest, run))]

\* The line with each reference that the store resolves replaced by the
\* whole text of its entry, taken as it is, and every other character kept.
RECURSIVE SinglePass(_, _, _)
SinglePass(st, in, at) ==
    IF at >= Len(in) THEN <<>>
    ELSE LET ref == ReferenceAt(st, in, at)
         IN  IF ref.entry # NULL
             THEN Deref(ref.entry) \o SinglePass(st, in, at + 1 + ref.run)
             ELSE <<in[at + 1]>> \o SinglePass(st, in, at + 1)

\* C25: expansion is a single pass: the text put in place of a reference is
\* not scanned for references, and every character of the line that is not
\* part of a resolvable reference, a bare or trailing '!' included, is copied
\* to the output unchanged and in order.
C25_SinglePassLiteralCopy ==
    (raw_line # <<>> /\ exp_rc = 0) => exp_out = SinglePass(Store, raw_line, 0)

\* C29: a !digits reference resolves to an entry only when the decimal value
\* of its digit run is between 1 and history_count, for digit runs of any
\* length, those whose value is beyond the range of a 32-bit int included.
C29_OnlyNumbersInRangeResolve ==
    (Cardinality(Bangs(raw_line)) = 1
        /\ SoleBang(raw_line) < Len(raw_line)
        /\ isdigit(raw_line[SoleBang(raw_line) + 1])) =>
        LET q == SoleBang(raw_line)
            run == strspn(Drop(raw_line, q), DigitChars)
            n == RefNumber(SubSeq(raw_line, q + 1, q + run))
        IN  (n < 1 \/ n > history_count) => exp_rc = 0 - 1

\* C30: the expander never writes outside its output buffer, the output with
\* its terminator fits in max_output_size; and when it returns success a
\* reference that resolves has the whole text of its entry in its place, it
\* is never dropped because the text does not fit.
C30_OutputFitsAndNothingDropped ==
    /\ Len(exp_out) + 1 <= MAX_INPUT_SIZE
    /\ (Cardinality(Bangs(raw_line)) = 1 /\ exp_rc = 0) =>
          LET q == SoleBang(raw_line)
              ref == ReferenceAt(Store, raw_line, q - 1)
          IN  ref.entry # NULL =>
                  /\ Len(exp_out) >= q - 1 + Len(Deref(ref.entry))
                  /\ SubSeq(exp_out, q, q - 1 + Len(Deref(ref.entry))) = Deref(ref.entry)

====
